---- MODULE Spec2Model ----
(***************************************************************************)
(* puskapupu: the CQGMA telnet session manager (src/cqgma.rs) and the      *)
(* supervisor loop of the binary (src/bin/puskapupu.rs).                   *)
(*                                                                         *)
(* Text is modelled as a sequence of one-character strings.  Two tokens    *)
(* stand for bytes that TLA+ strings cannot spell: "<BEL>" is 0x07 and     *)
(* "<FF>" is a byte that is not valid UTF-8.  Durations are in seconds.    *)
(***************************************************************************)
EXTENDS Integers, Sequences, FiniteSets, TLC

(* ------------------------------- bounds -------------------------------- *)
\* connect attempts of one run of the manager
MaxAttempts == 3
\* lines the server delivers over all sessions
MaxLines == 2
\* messages the holder of the telnet_tx sender enqueues
MaxMsgs == 2
\* socket addresses the host name resolves to
MaxAddrs == 2

(* --------------------------- program constants ------------------------- *)
TIMEOUT == 17
\* parser.rs line 146: at_most(26)
InfoWidth == 26

(* ------------------------------ text helpers --------------------------- *)
UpperChars == <<"A","B","C","D","E","F","G","H","I","J","K","L","M",
                "N","O","P","Q","R","S","T","U","V","W","X","Y","Z">>
LowerChars == <<"a","b","c","d","e","f","g","h","i","j","k","l","m",
                "n","o","p","q","r","s","t","u","v","w","x","y","z">>
Digits == {"0","1","2","3","4","5","6","7","8","9"}
Whitespace == {" ", "\t", "\n", "\r"}
BEL == "<BEL>"
BadByte == "<FF>"

lower_char(c) ==
  IF \E k \in 1..26 : UpperChars[k] = c
  THEN LowerChars[CHOOSE k \in 1..26 : UpperChars[k] = c]
  ELSE c

to_lowercase(s) == [i \in 1..Len(s) |-> lower_char(s[i])]

starts_with(s, p) == Len(s) >= Len(p) /\ SubSeq(s, 1, Len(p)) = p

contains(s, p) ==
  \E i \in 1..(Len(s) - Len(p) + 1) : SubSeq(s, i, i + Len(p) - 1) = p

RECURSIVE trim_end(_)
trim_end(s) ==
  IF s # <<>> /\ s[Len(s)] \in Whitespace
  THEN trim_end(SubSeq(s, 1, Len(s) - 1))
  ELSE s

RECURSIVE trim_end_matches(_, _)
trim_end_matches(s, c) ==
  IF s # <<>> /\ s[Len(s)] = c
  THEN trim_end_matches(SubSeq(s, 1, Len(s) - 1), c)
  ELSE s

\* line 83: line.trim_end().trim_end_matches('\x07')
strip_line(line) == trim_end_matches(trim_end(line), BEL)

\* chars().nth(8) >= Some('0') && chars().nth(8) <= Some('9'); None is below
\* every Some, so a line of fewer than 9 characters fails the first test
nth8_is_digit(l) == Len(l) >= 9 /\ l[9] \in Digits

\* line_filter matching the characters as they are, with no lower-casing
line_filter_cased(line) ==
  LET l == line IN
  IF ~starts_with(l, <<"d","x"," ","d","e">>) THEN FALSE
  ELSE IF /\ \/ starts_with(l, <<"d","x"," ","d","e"," ","o","h">>)
             \/ starts_with(l, <<"d","x"," ","d","e"," ","o","g">>)
          /\ nth8_is_digit(l) THEN TRUE
  ELSE IF contains(l, <<"o","h","f","f","-">>) THEN TRUE
  ELSE IF contains(l, <<"o","h","-">>) THEN TRUE
  ELSE FALSE

\* line_filter without the early return of lines 175-177
line_filter_any_prefix(line) ==
  LET l == to_lowercase(line) IN
  IF /\ \/ starts_with(l, <<"d","x"," ","d","e"," ","o","h">>)
        \/ starts_with(l, <<"d","x"," ","d","e"," ","o","g">>)
     /\ nth8_is_digit(l) THEN TRUE
  ELSE IF contains(l, <<"o","h","f","f","-">>) THEN TRUE
  ELSE IF contains(l, <<"o","h","-">>) THEN TRUE
  ELSE FALSE

line_filter(line) ==
  LET l == to_lowercase(line) IN
  IF ~starts_with(l, <<"d","x"," ","d","e">>) THEN FALSE
  ELSE IF /\ \/ starts_with(l, <<"d","x"," ","d","e"," ","o","h">>)
             \/ starts_with(l, <<"d","x"," ","d","e"," ","o","g">>)
          /\ nth8_is_digit(l) THEN TRUE
  ELSE IF contains(l, <<"o","h","f","f","-">>) THEN TRUE
  ELSE IF contains(l, <<"o","h","-">>) THEN TRUE
  ELSE FALSE

(* --------------------------- parser.rs: DxEntry ------------------------ *)
\* a character outside ASCII, which is alphabetic: U+00E9
NonAscii == {"<U+E9>"}
DigitSeq == <<"0","1","2","3","4","5","6","7","8","9">>

is_ascii(c) == c \notin NonAscii
is_ascii_digit(c) == c \in Digits
is_whitespace(c) == c \in Whitespace
is_alphabetic(c) ==
  \/ \E k \in 1..26 : UpperChars[k] = c \/ LowerChars[k] = c
  \/ c \in NonAscii

\* line 108: the characters of a callsign
callsign_char(c) == is_ascii(c) /\ c # ":" /\ c # " "
\* line 112: the characters of a frequency
frequency_char(c) == is_ascii_digit(c) \/ c = "."

\* filter(P).repeated().at_most(max) from position i: the position after the
\* longest run of at most max characters that satisfy P (no backtracking)
\* the filters of the tokens, by name
in_class(c, class) ==
  CASE class = "callsign" -> callsign_char(c)
    [] class = "frequency" -> frequency_char(c)
    [] class = "ascii" -> is_ascii(c)
    [] class = "digit" -> is_ascii_digit(c)
    [] class = "alphabetic" -> is_alphabetic(c)
    [] class = "whitespace" -> is_whitespace(c)

run_end(s, i, class, max) ==
  LET stops == {j \in i..(Len(s) + 1) :
                  j = Len(s) + 1 \/ j - i >= max \/ ~in_class(s[j], class)}
  IN CHOOSE j \in stops : \A k \in stops : j <= k

\* the whitespace that padded() skips before and after a parser
skip_ws(s, i) == run_end(s, i, "whitespace", Len(s) + 1)

RECURSIVE trim_start(_)
trim_start(s) ==
  IF s # <<>> /\ s[1] \in Whitespace THEN trim_start(Tail(s)) ELSE s

\* line 148: str::trim
trim(s) == trim_start(trim_end(s))

digit_val(c) == (CHOOSE k \in 1..10 : DigitSeq[k] = c) - 1

RECURSIVE dec_int(_)
dec_int(ds) ==
  IF ds = <<>> THEN 0
  ELSE 10 * dec_int(SubSeq(ds, 1, Len(ds) - 1)) + digit_val(ds[Len(ds)])

RECURSIVE strip_zeros(_)
strip_zeros(ds) ==
  IF ds # <<>> /\ ds[Len(ds)] = "0" THEN strip_zeros(SubSeq(ds, 1, Len(ds) - 1))
  ELSE ds

\* line 116: str::parse::<f32> on a run of digits and dots succeeds when the
\* run has at most one dot and at least one digit
f32_parse_ok(t) ==
  /\ Cardinality({i \in 1..Len(t) : t[i] = "."}) <= 1
  /\ \E i \in 1..Len(t) : t[i] \in Digits

\* the number such a run denotes, as the integer part and the decimals
\* without their trailing zeros (the rounding to f32 is left out)
f32_parse(t) ==
  LET dots == {i \in 1..Len(t) : t[i] = "."}
      dot == IF dots = {} THEN Len(t) + 1 ELSE CHOOSE i \in dots : TRUE
  IN [int |-> dec_int(SubSeq(t, 1, dot - 1)),
      frac |-> strip_zeros(SubSeq(t, dot + 1, Len(t)))]

\* lines 57-66: Activity::from_str, "none" for Err(())
activity_from_str(t) ==
  IF t = <<"0","1">> THEN "Wwff"
  ELSE IF t = <<"0","2">> THEN "Iota"
  ELSE IF t = <<"0","3">> THEN "Cota"
  ELSE IF t = <<"0","4">> THEN "Sota"
  ELSE IF t = <<"0","5">> THEN "Gma"
  ELSE IF t = <<"0","6">> THEN "Lighthouses"
  ELSE IF t = <<"0","7">> THEN "Rda"
  ELSE IF t = <<"0","8">> THEN "Agcw"
  ELSE "none"

\* Source::from_str with the arms of "w" and "x" exchanged
source_from_str_exchanged(t) ==
  IF t = <<"d">> THEN "DxCluster"
  ELSE IF t = <<"f">> THEN "SmartWwff"
  ELSE IF t = <<"g">> THEN "GmaWatch"
  ELSE IF t = <<"m">> THEN "SmartGma"
  ELSE IF t = <<"r">> THEN "Rbn"
  ELSE IF t = <<"s">> THEN "SotaWatchRss"
  ELSE IF t = <<"t">> THEN "Rrt"
  ELSE IF t = <<"u">> THEN "UdxLog"
  ELSE IF t = <<"v">> THEN "VkSpots"
  ELSE IF t = <<"w">> THEN "Sms"
  ELSE IF t = <<"x">> THEN "WwffWatch"
  ELSE "none"

\* lines 90-103: Source::from_str, "none" for Err(())
source_from_str(t) ==
  IF t = <<"d">> THEN "DxCluster"
  ELSE IF t = <<"f">> THEN "SmartWwff"
  ELSE IF t = <<"g">> THEN "GmaWatch"
  ELSE IF t = <<"m">> THEN "SmartGma"
  ELSE IF t = <<"r">> THEN "Rbn"
  ELSE IF t = <<"s">> THEN "SotaWatchRss"
  ELSE IF t = <<"t">> THEN "Rrt"
  ELSE IF t = <<"u">> THEN "UdxLog"
  ELSE IF t = <<"v">> THEN "VkSpots"
  ELSE IF t = <<"w">> THEN "WwffWatch"
  ELSE IF t = <<"x">> THEN "Sms"
  ELSE "none"

NoIdentifier == [activity |-> "none", source |-> "none"]

\* lines 118-142 and 158: cqgma_identifier.padded() from position i; ok is
\* FALSE when any part of it fails, and then or_not() rewinds to i
cqgma_identifier(s, i) ==
  LET x == skip_ws(s, i)
      a1 == x + 1
      a2 == run_end(s, a1, "digit", 2)
      activity == activity_from_str(SubSeq(s, a1, a2 - 1))
      b2 == run_end(s, a2, "alphabetic", 1)
      source == source_from_str(SubSeq(s, a2, b2 - 1))
      failed == [ok |-> FALSE, val |-> NoIdentifier, pos |-> i]
  IN IF ~(x <= Len(s) /\ s[x] = "x") THEN failed
     ELSE IF a2 - a1 # 2 \/ activity = "none" THEN failed
     ELSE IF b2 - a2 # 1 \/ source = "none" THEN failed
     ELSE [ok |-> TRUE, val |-> [activity |-> activity, source |-> source],
           pos |-> skip_ws(s, b2)]

ParseErr == [kind |-> "Err"]
ParsePanic == [kind |-> "Panic"]

\* lines 107-179: dxspider_parser().parse(s); the parsers run left to right,
\* each from where the one before it stopped
dxspider_parser(s) ==
  LET r1 == skip_ws(s, 6)
      r2 == run_end(s, r1, "callsign", Len(s) + 1)
      r3 == skip_ws(s, r2)
      c1 == IF r3 <= Len(s) /\ s[r3] = ":" THEN r3 + 1 ELSE r3
      f1 == skip_ws(s, c1)
      f2 == run_end(s, f1, "frequency", Len(s) + 1)
      f3 == skip_ws(s, f2)
      d2 == run_end(s, f3, "callsign", Len(s) + 1)
      d3 == skip_ws(s, d2)
      tag == cqgma_identifier(s, d3)
      i1 == skip_ws(s, tag.pos)
      i2 == run_end(s, i1, "ascii", InfoWidth)
      i3 == skip_ws(s, i2)
      t2 == run_end(s, i3, "digit", Len(s) + 1)
  IN IF ~starts_with(s, <<"D","X"," ","d","e">>) THEN ParseErr
     ELSE IF f2 - f1 < 3 THEN ParseErr
     ELSE IF ~f32_parse_ok(SubSeq(s, f1, f2 - 1)) THEN ParsePanic
     ELSE IF t2 = i3 THEN ParseErr
     ELSE IF ~(t2 <= Len(s) /\ s[t2] = "Z") THEN ParseErr
     ELSE [kind |-> "Ok",
           reporter |-> SubSeq(s, r1, r2 - 1),
           frequency |-> f32_parse(SubSeq(s, f1, f2 - 1)),
           dx |-> SubSeq(s, f3, d2 - 1),
           cqgma_identifier |-> tag.val,
           info |-> trim(SubSeq(s, i1, i2 - 1)),
           timestamp |-> SubSeq(s, i3, t2 - 1)]

\* lines 16-22: DxEntry::from_str maps every parse error to Err(())
from_str(s) == dxspider_parser(s)

(* ------------------------------ rand_sleep ----------------------------- *)
\* Uniform::new_inclusive(0 s, TIMEOUT): sample points of the closed range the
\* sampler draws from, its two ends and its middle
timeout_fuzz == {0, TIMEOUT \div 2, TIMEOUT}

\* mutant: the fuzz is added twice
rand_sleep_twice(fuzz) == TIMEOUT + fuzz + fuzz

rand_sleep(fuzz) == TIMEOUT + fuzz

(* -------------------------------- connect ------------------------------ *)
\* what one resolved address does: TcpSocket::new_v4/new_v6 fails, the
\* connection is refused, set_nodelay fails, or the stream is returned
AddrOutcomes == {"socket_err", "refused", "nodelay_err", "ok"}

RECURSIVE SeqsUpTo(_, _)
SeqsUpTo(S, n) ==
  IF n = 0 THEN {<<>>}
  ELSE LET shorter == SeqsUpTo(S, n - 1) IN
       shorter \cup {Append(s, x) : s \in {t \in shorter : Len(t) = n - 1}, x \in S}

\* what to_socket_addrs gives: an error, or the candidate addresses
Resolutions ==
  {[resolved |-> FALSE, addrs |-> <<>>]}
  \cup {[resolved |-> TRUE, addrs |-> a] : a \in SeqsUpTo(AddrOutcomes, MaxAddrs)}

RECURSIVE connect_addrs(_, _)
connect_addrs(addrs, i) ==
  IF i > Len(addrs) THEN "Err"
  ELSE IF addrs[i] = "socket_err" THEN "Err"
  ELSE IF addrs[i] = "ok" THEN "Ok"
  ELSE IF addrs[i] = "nodelay_err" THEN "Err"
  ELSE connect_addrs(addrs, i + 1)

connect(res) ==
  IF ~res.resolved THEN "Err" ELSE connect_addrs(res.addrs, 1)

(* --------------------------------- login ------------------------------- *)
LoginLit == <<"l","o","g","i","n",":">>

\* what read_until(b' ') can leave in buf: the bytes up to and including the
\* first space, or everything up to end of stream when no space comes
Prompts == { <<"l","o","g","i","n",":"," ">>,
             <<"l","o","g","i","n",":">>,
             <<"L","o","g","i","n",":"," ">>,
             <<"l","o","g","i","n"," ">>,
             <<"l","o","g","i","n",":",BadByte," ">>,
             <<>> }

from_utf8_ok(buf) == \A i \in 1..Len(buf) : buf[i] # BadByte

\* mutant: the prompt is compared without regard to letter case
login_prompt_ok_nocase(buf) ==
  from_utf8_ok(buf) /\ starts_with(to_lowercase(buf), LoginLit)

\* lines 156-162: the prompt test that guards the write of the username
login_prompt_ok(buf) == from_utf8_ok(buf) /\ starts_with(buf, LoginLit)

\* login(): "Ok" or "Err", given the outcome of the read, the bytes read and
\* the outcome of the write of the username (consulted only when it happens)
login(read_ok, buf, write_ok) ==
  IF ~read_ok THEN "Err"
  ELSE IF login_prompt_ok(buf) THEN (IF write_ok THEN "Ok" ELSE "Err")
  ELSE "Err"

\* whether login() reaches tx.write_all(username + "\n")
login_writes(read_ok, buf) == read_ok /\ login_prompt_ok(buf)

(* ------------------------------ the inputs ----------------------------- *)
Username == <<"o","h","9">>

RawLines == { <<"D","X"," ","d","e"," ","O","H","8"," ",BEL>>,
              <<"D","X"," ","d","e"," ","A","D","6",":">>,
              <<"D","X"," ","d","e"," ","O","G","0",BEL," ">> }

Msgs == { <<"h","i">>, <<"7","3">> }

\* lines 150-153: what the BufReader of login() can hold beyond the first
\* space when read_until returns: nothing, or bytes of the server that arrived
\* in the same read as the prompt (here one line of a spot); a prompt that
\* ends without space ends at the end of the stream and has nothing after it
LoginTails == { <<>>, <<"D","X"," ","d","e"," ","O","G","0","\n">> }

NoLogin == [read_ok |-> FALSE, buf |-> <<>>, rest |-> <<>>, wrote |-> FALSE,
            write_ok |-> FALSE, done |-> FALSE]

(* -------------------------------- state -------------------------------- *)
\* Every task runs on the runtime main blocks on: each action is guarded by
\* process = "running", and nothing happens after a panic or return of main.
VARIABLES
  pc,          \* where manage_telnet is
  sleep_for,   \* the local sleep_for of the current cycle, 0 outside it
  timer,       \* the duration of the tokio::time::sleep in progress, 0 if none
  result,      \* what manage_telnet returned, "none" while it runs
  stream,      \* the result of connect() in this cycle: "none", "Ok", "Err"
  login_io,    \* what happened in login() in this cycle
  tx_sent,     \* every message sent on the telnet_tx sender
  tx_taken,    \* how many of them telnet_tx.recv() has returned
  tx_closed,   \* every telnet_tx sender dropped
  rx_sent,     \* every line telnet_rx.send() accepted
  rx_taken,    \* how many of them the receiver of telnet_rx has taken
  rx_dropped,  \* the receiver of telnet_rx dropped
  lines_read,  \* every stripped line read in Active
  wire,        \* every write_all on a socket: connection, bytes, outcome
  attempts,    \* calls of connect()
  sleeps,      \* completed calls of tokio::time::sleep in manage_telnet
  lost,        \* why the select loop was last left: "none", "eof", "write"
  lost_at,     \* the connection (value of attempts) on which that happened
  process,     \* "running", "panicked" (main, line 35), "main_err" (line 28)
  sup_pc,      \* where main is: "matrix_init", "poll", "sleep"
  relay,       \* the room relay task: "none", "running", "finished"
  sync,        \* the sync task: "none", "running", "finished"
  rd,          \* the read side of the stream: "ok", "erred" (a read returned
               \* Err), "broken" (every read from now on returns Err)
  fn_in,       \* the argument of the pure function a specification applies
  fn_out       \* its result

vars == <<pc, sleep_for, timer, result, stream, login_io, tx_sent, tx_taken,
          tx_closed, rx_sent, rx_taken, rx_dropped, lines_read, wire, attempts,
          sleeps, lost, lost_at, process, sup_pc, relay, sync, rd, fn_in, fn_out>>

chan_vars == <<tx_sent, tx_taken, tx_closed, rx_sent, rx_taken, rx_dropped>>
main_vars == <<process, sup_pc, relay, sync>>
loss_vars == <<lost, lost_at>>
\* the state of manage_telnet and its history
task_vars == <<pc, sleep_for, timer, result, stream, login_io, lines_read, wire,
               attempts, sleeps, lost, lost_at, rd>>
fn_vars == <<fn_in, fn_out>>

NotApplied == [kind |-> "none"]
NoInput == [text |-> <<>>]

\* the queue of the telnet_tx channel
tx_queue == SubSeq(tx_sent, tx_taken + 1, Len(tx_sent))

InitTasks ==
  /\ pc = "loop"
  /\ sleep_for = 0
  /\ timer = 0
  /\ result = "none"
  /\ stream = "none"
  /\ login_io = NoLogin
  /\ tx_sent = <<>>
  /\ tx_taken = 0
  /\ tx_closed = FALSE
  /\ rx_sent = <<>>
  /\ rx_taken = 0
  /\ rx_dropped = FALSE
  /\ lines_read = <<>>
  /\ wire = <<>>
  /\ attempts = 0
  /\ sleeps = 0
  /\ lost = "none"
  /\ lost_at = 0
  /\ process = "running"
  /\ sup_pc = "matrix_init"
  /\ relay = "none"
  /\ sync = "none"
  /\ rd = "ok"

Init ==
  /\ InitTasks
  /\ fn_in = NoInput
  /\ fn_out = NotApplied

(* ----------------------------- manage_telnet --------------------------- *)
\* lines 49-51: top of the loop
LoopTop ==
  /\ process = "running"
  /\ UNCHANGED fn_vars
  /\ pc = "loop"
  /\ attempts < MaxAttempts
  /\ \E fuzz \in timeout_fuzz : sleep_for' = rand_sleep(fuzz)
  /\ pc' = "connect"
  /\ stream' = "none"
  /\ login_io' = NoLogin
  /\ UNCHANGED <<timer, result, lines_read, wire, attempts, sleeps>>
  /\ UNCHANGED <<chan_vars, main_vars, loss_vars>>
  /\ UNCHANGED rd

\* lines 53-54: connect() returned a stream
ConnectOk ==
  /\ process = "running"
  /\ UNCHANGED fn_vars
  /\ pc = "connect"
  /\ \E res \in Resolutions : connect(res) = "Ok"
  /\ stream' = "Ok"
  /\ attempts' = attempts + 1
  /\ pc' = "login"
  /\ UNCHANGED <<sleep_for, timer, result, login_io, lines_read, wire, sleeps>>
  /\ UNCHANGED <<chan_vars, main_vars, loss_vars>>
  /\ UNCHANGED rd

\* mutant: a failed connect returns the error instead of sleeping
ConnectErr_fatal ==
  /\ process = "running"
  /\ UNCHANGED fn_vars
  /\ pc = "connect"
  /\ \E res \in Resolutions : connect(res) = "Err"
  /\ stream' = "Err"
  /\ attempts' = attempts + 1
  /\ result' = "connect"
  /\ pc' = "returned"
  /\ UNCHANGED <<sleep_for, timer, login_io, lines_read, wire, sleeps>>
  /\ UNCHANGED <<chan_vars, main_vars, loss_vars>>
  /\ UNCHANGED rd

\* lines 55-62: connect() failed; sleep, then continue
ConnectErr ==
  /\ process = "running"
  /\ UNCHANGED fn_vars
  /\ pc = "connect"
  /\ \E res \in Resolutions : connect(res) = "Err"
  /\ stream' = "Err"
  /\ attempts' = attempts + 1
  /\ timer' = sleep_for
  /\ pc' = "sleep_retry"
  /\ UNCHANGED <<sleep_for, result, login_io, lines_read, wire, sleeps>>
  /\ UNCHANGED <<chan_vars, main_vars, loss_vars>>
  /\ UNCHANGED rd

\* mutant: after the sleep the task returns Ok(())
Wake_return ==
  /\ process = "running"
  /\ UNCHANGED fn_vars
  /\ pc \in {"sleep_retry", "sleep_reconnect"}
  /\ timer' = 0
  /\ sleep_for' = 0
  /\ sleeps' = sleeps + 1
  /\ result' = "ok"
  /\ pc' = "returned"
  /\ UNCHANGED <<stream, login_io, lines_read, wire, attempts>>
  /\ UNCHANGED <<chan_vars, main_vars, loss_vars>>
  /\ UNCHANGED rd

\* lines 60-61 and 119-120: the sleep is over, the loop starts again
Wake ==
  /\ process = "running"
  /\ UNCHANGED fn_vars
  /\ pc \in {"sleep_retry", "sleep_reconnect"}
  /\ timer' = 0
  /\ sleep_for' = 0
  /\ sleeps' = sleeps + 1
  /\ pc' = "loop"
  /\ UNCHANGED <<result, stream, login_io, lines_read, wire, attempts>>
  /\ UNCHANGED <<chan_vars, main_vars, loss_vars>>
  /\ UNCHANGED rd

\* mutant: login() succeeds without writing the username
LoginOk_silent ==
  /\ process = "running"
  /\ UNCHANGED fn_vars
  /\ pc = "login"
  /\ \E buf \in Prompts, rest \in LoginTails :
       /\ login(TRUE, buf, TRUE) = "Ok"
       /\ rest # <<>> => buf # <<>> /\ buf[Len(buf)] = " "
       /\ login_io' = [read_ok |-> TRUE, buf |-> buf, rest |-> rest, wrote |-> TRUE,
                       write_ok |-> TRUE, done |-> TRUE]
  /\ pc' = "active"
  /\ UNCHANGED <<sleep_for, timer, result, stream, lines_read, wire, attempts, sleeps>>
  /\ UNCHANGED <<chan_vars, main_vars, loss_vars>>
  /\ UNCHANGED rd

\* lines 65-66 with login() lines 149-160: the handshake succeeded
LoginOk ==
  /\ process = "running"
  /\ UNCHANGED fn_vars
  /\ pc = "login"
  /\ \E buf \in Prompts, rest \in LoginTails :
       /\ login(TRUE, buf, TRUE) = "Ok"
       /\ rest # <<>> => buf # <<>> /\ buf[Len(buf)] = " "
       /\ login_io' = [read_ok |-> TRUE, buf |-> buf, rest |-> rest, wrote |-> TRUE,
                       write_ok |-> TRUE, done |-> TRUE]
       /\ wire' = Append(wire, [conn |-> attempts, ok |-> TRUE, kind |-> "user",
                                bytes |-> Username \o <<"\n">>])
  /\ pc' = "active"
  /\ UNCHANGED <<sleep_for, timer, result, stream, lines_read, attempts, sleeps>>
  /\ UNCHANGED <<chan_vars, main_vars, loss_vars>>
  /\ UNCHANGED rd

\* lines 67-73 with login() lines 149-169: login() returned an error
LoginErr ==
  /\ process = "running"
  /\ UNCHANGED fn_vars
  /\ pc = "login"
  /\ \E read_ok \in BOOLEAN, buf \in Prompts, write_ok \in BOOLEAN :
       /\ ~read_ok => buf = <<>>
       /\ ~login_writes(read_ok, buf) => ~write_ok
       /\ login(read_ok, buf, write_ok) = "Err"
       /\ login_io' = [read_ok |-> read_ok, buf |-> buf, rest |-> <<>>,
                       wrote |-> login_writes(read_ok, buf),
                       write_ok |-> write_ok, done |-> TRUE]
       /\ wire' = IF login_writes(read_ok, buf)
                  THEN Append(wire, [conn |-> attempts, ok |-> write_ok, kind |-> "user",
                                     bytes |-> Username \o <<"\n">>])
                  ELSE wire
  /\ result' = "login"
  /\ pc' = "returned"
  /\ UNCHANGED <<sleep_for, timer, stream, lines_read, attempts, sleeps>>
  /\ UNCHANGED <<chan_vars, main_vars, loss_vars>>
  /\ UNCHANGED rd

\* mutant: the result of telnet_rx.send() is ignored
LineRead_send_unchecked ==
  /\ process = "running"
  /\ UNCHANGED fn_vars
  /\ pc = "active"
  /\ rd # "broken"
  /\ Len(lines_read) < MaxLines
  /\ \E raw \in RawLines :
       LET line == strip_line(raw) IN
       /\ lines_read' = Append(lines_read, line)
       /\ rx_sent' = IF line_filter(line) /\ ~rx_dropped
                     THEN Append(rx_sent, line) ELSE rx_sent
  /\ UNCHANGED <<pc, result, sleep_for, timer, stream, login_io, wire, attempts, sleeps>>
  /\ UNCHANGED <<tx_sent, tx_taken, tx_closed, rx_taken, rx_dropped>>
  /\ UNCHANGED <<main_vars, loss_vars>>
  /\ UNCHANGED rd

\* mutant: every line is forwarded, the filter is not consulted
LineRead_unfiltered ==
  /\ process = "running"
  /\ UNCHANGED fn_vars
  /\ pc = "active"
  /\ rd # "broken"
  /\ Len(lines_read) < MaxLines
  /\ \E raw \in RawLines :
       LET line == strip_line(raw) IN
       /\ lines_read' = Append(lines_read, line)
       /\ IF rx_dropped
          THEN /\ result' = "rx_closed"
               /\ pc' = "returned"
               /\ rx_sent' = rx_sent
          ELSE /\ rx_sent' = Append(rx_sent, line)
               /\ UNCHANGED <<pc, result>>
  /\ UNCHANGED <<sleep_for, timer, stream, login_io, wire, attempts, sleeps>>
  /\ UNCHANGED <<tx_sent, tx_taken, tx_closed, rx_taken, rx_dropped>>
  /\ UNCHANGED <<main_vars, loss_vars>>
  /\ rd' = IF pc' = "returned" THEN "ok" ELSE rd

\* lines 82-91: a line is read, stripped, filtered and, if accepted, sent on
\* telnet_rx; a failed send returns the error of line 88
LineRead ==
  /\ process = "running"
  /\ UNCHANGED fn_vars
  /\ pc = "active"
  /\ rd # "broken"
  /\ Len(lines_read) < MaxLines
  /\ \E raw \in RawLines :
       LET line == strip_line(raw) IN
       /\ lines_read' = Append(lines_read, line)
       /\ IF line_filter(line)
          THEN IF rx_dropped
               THEN /\ result' = "rx_closed"
                    /\ pc' = "returned"
                    /\ rx_sent' = rx_sent
               ELSE /\ rx_sent' = Append(rx_sent, line)
                    /\ UNCHANGED <<pc, result>>
          ELSE UNCHANGED <<pc, result, rx_sent>>
  /\ UNCHANGED <<sleep_for, timer, stream, login_io, wire, attempts, sleeps>>
  /\ UNCHANGED <<tx_sent, tx_taken, tx_closed, rx_taken, rx_dropped>>
  /\ UNCHANGED <<main_vars, loss_vars>>
  /\ rd' = IF pc' = "returned" THEN "ok" ELSE rd

\* mutant: end of stream returns an error
LineEof_fatal ==
  /\ process = "running"
  /\ UNCHANGED fn_vars
  /\ pc = "active"
  /\ rd # "broken"
  /\ lost' = "eof"
  /\ lost_at' = attempts
  /\ result' = "eof"
  /\ pc' = "returned"
  /\ UNCHANGED <<sleep_for, timer, stream, login_io, lines_read, wire, attempts, sleeps>>
  /\ UNCHANGED <<chan_vars, main_vars>>
  /\ rd' = "ok"

\* mutant: the loss of the session draws a new delay for its sleep
LineEof_redraw ==
  /\ process = "running"
  /\ UNCHANGED fn_vars
  /\ pc = "active"
  /\ rd # "broken"
  /\ lost' = "eof"
  /\ lost_at' = attempts
  /\ \E fuzz \in timeout_fuzz : timer' = rand_sleep(fuzz)
  /\ pc' = "sleep_reconnect"
  /\ UNCHANGED <<sleep_for, result, stream, login_io, lines_read, wire, attempts, sleeps>>
  /\ UNCHANGED <<chan_vars, main_vars>>
  /\ rd' = "ok"

\* lines 92-95 and 115-119: end of stream, leave the select loop and sleep
LineEof ==
  /\ process = "running"
  /\ UNCHANGED fn_vars
  /\ pc = "active"
  /\ rd # "broken"
  /\ lost' = "eof"
  /\ lost_at' = attempts
  /\ timer' = sleep_for
  /\ pc' = "sleep_reconnect"
  /\ UNCHANGED <<sleep_for, result, stream, login_io, lines_read, wire, attempts, sleeps>>
  /\ UNCHANGED <<chan_vars, main_vars>>
  /\ rd' = "ok"

\* mutant: an error of next_line() ends the session like the end of the stream
LineErr_break ==
  /\ process = "running"
  /\ UNCHANGED fn_vars
  /\ pc = "active"
  /\ \E broken \in BOOLEAN :
       rd' = IF broken \/ rd = "broken" THEN "broken" ELSE "erred"
  /\ lost' = "eof"
  /\ lost_at' = attempts
  /\ timer' = sleep_for
  /\ pc' = "sleep_reconnect"
  /\ UNCHANGED <<sleep_for, result, stream, login_io, lines_read, wire, attempts, sleeps>>
  /\ UNCHANGED <<chan_vars, main_vars>>

\* line 96: next_line() returned an error, which is logged; the error is
\* either of this read only (a line that is not UTF-8) or of the transport,
\* which then fails every later read too
LineErr ==
  /\ process = "running"
  /\ UNCHANGED fn_vars
  /\ pc = "active"
  /\ \E broken \in BOOLEAN :
       rd' = IF broken \/ rd = "broken" THEN "broken" ELSE "erred"
  /\ UNCHANGED <<pc, sleep_for, timer, result, stream, login_io, lines_read, wire,
                 attempts, sleeps, lost, lost_at>>
  /\ UNCHANGED <<chan_vars, main_vars>>

\* mutant: the newest queued message is written instead of the oldest
RecvWriteOk_newest ==
  /\ process = "running"
  /\ UNCHANGED fn_vars
  /\ pc = "active"
  /\ tx_queue # <<>>
  /\ tx_taken' = tx_taken + 1
  /\ wire' = Append(wire, [conn |-> attempts, ok |-> TRUE, kind |-> "msg",
                           bytes |-> tx_queue[Len(tx_queue)] \o <<"\n">>])
  /\ UNCHANGED <<pc, sleep_for, timer, result, stream, login_io, lines_read, attempts, sleeps>>
  /\ UNCHANGED <<tx_sent, tx_closed, rx_sent, rx_taken, rx_dropped>>
  /\ UNCHANGED <<main_vars, loss_vars>>
  /\ UNCHANGED rd

\* lines 99-102: a message from the channel, written with a newline
RecvWriteOk ==
  /\ process = "running"
  /\ UNCHANGED fn_vars
  /\ pc = "active"
  /\ tx_queue # <<>>
  /\ tx_taken' = tx_taken + 1
  /\ wire' = Append(wire, [conn |-> attempts, ok |-> TRUE, kind |-> "msg",
                           bytes |-> Head(tx_queue) \o <<"\n">>])
  /\ UNCHANGED <<pc, sleep_for, timer, result, stream, login_io, lines_read, attempts, sleeps>>
  /\ UNCHANGED <<tx_sent, tx_closed, rx_sent, rx_taken, rx_dropped>>
  /\ UNCHANGED <<main_vars, loss_vars>>
  /\ UNCHANGED rd

\* mutant: a message whose write failed stays at the head of the channel
RecvWriteErr_requeue ==
  /\ process = "running"
  /\ UNCHANGED fn_vars
  /\ pc = "active"
  /\ tx_queue # <<>>
  /\ wire' = Append(wire, [conn |-> attempts, ok |-> FALSE, kind |-> "msg",
                           bytes |-> Head(tx_queue) \o <<"\n">>])
  /\ lost' = "write"
  /\ lost_at' = attempts
  /\ timer' = sleep_for
  /\ pc' = "sleep_reconnect"
  /\ UNCHANGED <<sleep_for, result, stream, login_io, lines_read, attempts, sleeps>>
  /\ UNCHANGED <<tx_sent, tx_taken, tx_closed, rx_sent, rx_taken, rx_dropped>>
  /\ UNCHANGED main_vars
  /\ rd' = "ok"

\* lines 99-105 and 115-119: the write failed, leave the select loop and sleep
RecvWriteErr ==
  /\ process = "running"
  /\ UNCHANGED fn_vars
  /\ pc = "active"
  /\ tx_queue # <<>>
  /\ tx_taken' = tx_taken + 1
  /\ wire' = Append(wire, [conn |-> attempts, ok |-> FALSE, kind |-> "msg",
                           bytes |-> Head(tx_queue) \o <<"\n">>])
  /\ lost' = "write"
  /\ lost_at' = attempts
  /\ timer' = sleep_for
  /\ pc' = "sleep_reconnect"
  /\ UNCHANGED <<sleep_for, result, stream, login_io, lines_read, attempts, sleeps>>
  /\ UNCHANGED <<tx_sent, tx_closed, rx_sent, rx_taken, rx_dropped>>
  /\ UNCHANGED main_vars
  /\ rd' = "ok"

\* mutant: a closed channel breaks out of the select loop like a failed write
RecvClosed_break ==
  /\ process = "running"
  /\ UNCHANGED fn_vars
  /\ pc = "active"
  /\ tx_queue = <<>>
  /\ tx_closed
  /\ lost' = "write"
  /\ lost_at' = attempts
  /\ timer' = sleep_for
  /\ pc' = "sleep_reconnect"
  /\ UNCHANGED <<sleep_for, result, stream, login_io, lines_read, wire, attempts, sleeps>>
  /\ UNCHANGED <<chan_vars, main_vars>>
  /\ rd' = "ok"

\* lines 107-110: recv() returned None, the channel is closed and empty
RecvClosed ==
  /\ process = "running"
  /\ UNCHANGED fn_vars
  /\ pc = "active"
  /\ tx_queue = <<>>
  /\ tx_closed
  /\ result' = "tx_closed"
  /\ pc' = "returned"
  /\ UNCHANGED <<sleep_for, timer, stream, login_io, lines_read, wire, attempts, sleeps>>
  /\ UNCHANGED <<chan_vars, main_vars, loss_vars>>
  /\ rd' = "ok"

(* ------------------- the other ends of the two channels ---------------- *)
\* UnboundedSender::send on telnet_tx; it fails once the manager has returned
\* and dropped the receiver
UserSend ==
  /\ process = "running"
  /\ UNCHANGED fn_vars
  /\ ~tx_closed
  /\ pc # "returned"
  /\ Len(tx_sent) < MaxMsgs
  /\ \E m \in Msgs : tx_sent' = Append(tx_sent, m)
  /\ UNCHANGED <<tx_taken, tx_closed, rx_sent, rx_taken, rx_dropped>>
  /\ UNCHANGED <<task_vars, main_vars>>

\* the last telnet_tx sender is dropped
UserCloseTx ==
  /\ process = "running"
  /\ UNCHANGED fn_vars
  /\ ~tx_closed
  /\ tx_closed' = TRUE
  /\ UNCHANGED <<tx_sent, tx_taken, rx_sent, rx_taken, rx_dropped>>
  /\ UNCHANGED <<task_vars, main_vars>>

\* the receiver of telnet_rx is dropped
UserDropRx ==
  /\ process = "running"
  /\ UNCHANGED fn_vars
  /\ ~rx_dropped
  /\ rx_dropped' = TRUE
  /\ UNCHANGED <<tx_sent, tx_taken, tx_closed, rx_sent, rx_taken>>
  /\ UNCHANGED <<task_vars, main_vars>>

(* ------------------------ main and matrix_init ------------------------- *)
\* JoinHandle::is_finished of the three handles main collects in fut
manager_finished == result # "none"
relay_finished == relay = "finished"
sync_finished == sync = "finished"

\* main lines 32-37: the handles are polled in the order they were pushed
any_finished == manager_finished \/ relay_finished \/ sync_finished

\* main line 28, matrix.rs lines 19-74: matrix_init returns its handles; the
\* room relay is spawned only when the room was joined and found, otherwise
\* room_rx is dropped when matrix_init returns
MatrixInitOk ==
  /\ process = "running"
  /\ UNCHANGED fn_vars
  /\ sup_pc = "matrix_init"
  /\ \E joined \in BOOLEAN :
       /\ relay' = IF joined THEN "running" ELSE "none"
       /\ rx_dropped' = ~joined
  /\ sync' = "running"
  /\ sup_pc' = "poll"
  /\ UNCHANGED <<tx_sent, tx_taken, tx_closed, rx_sent, rx_taken>>
  /\ UNCHANGED <<task_vars, process>>

\* main line 28, matrix.rs lines 19 and 32: Client::new or restore_session
\* failed, main returns the error
MatrixInitErr ==
  /\ process = "running"
  /\ UNCHANGED fn_vars
  /\ sup_pc = "matrix_init"
  /\ process' = "main_err"
  /\ rx_dropped' = TRUE
  /\ UNCHANGED <<tx_sent, tx_taken, tx_closed, rx_sent, rx_taken>>
  /\ UNCHANGED <<task_vars, sup_pc, relay, sync>>

\* matrix.rs lines 44-48: the relay takes the next line and sends it to the room
RelayRecv ==
  /\ process = "running"
  /\ UNCHANGED fn_vars
  /\ relay = "running"
  /\ rx_taken < Len(rx_sent)
  /\ rx_taken' = rx_taken + 1
  /\ UNCHANGED <<tx_sent, tx_taken, tx_closed, rx_sent, rx_dropped>>
  /\ UNCHANGED <<task_vars, main_vars>>

\* matrix.rs lines 44 and 50: recv() returned None (the manager has returned
\* and dropped the sender, the queue is empty), the relay returns Ok(())
RelayDone ==
  /\ process = "running"
  /\ UNCHANGED fn_vars
  /\ relay = "running"
  /\ rx_taken = Len(rx_sent)
  /\ pc = "returned"
  /\ relay' = "finished"
  /\ UNCHANGED <<task_vars, chan_vars, process, sup_pc, sync>>

\* matrix.rs lines 58-60: the sync stream gave Ok
SyncOk ==
  /\ process = "running"
  /\ UNCHANGED fn_vars
  /\ sync = "running"
  /\ UNCHANGED vars

\* matrix.rs lines 61-70: the sync stream gave an error or ended
SyncErr ==
  /\ process = "running"
  /\ UNCHANGED fn_vars
  /\ sync = "running"
  /\ sync' = "finished"
  /\ UNCHANGED <<task_vars, chan_vars, process, sup_pc, relay>>

\* mutant: only the first handle, the telnet manager, is looked at
Poll_first_only ==
  /\ process = "running"
  /\ UNCHANGED fn_vars
  /\ sup_pc = "poll"
  /\ IF manager_finished
     THEN process' = "panicked" /\ sup_pc' = sup_pc
     ELSE process' = process /\ sup_pc' = "sleep"
  /\ UNCHANGED <<task_vars, chan_vars, relay, sync>>

\* main lines 32-38: one pass over the handles, then the one second sleep
Poll ==
  /\ process = "running"
  /\ UNCHANGED fn_vars
  /\ sup_pc = "poll"
  /\ IF any_finished
     THEN process' = "panicked" /\ sup_pc' = sup_pc
     ELSE process' = process /\ sup_pc' = "sleep"
  /\ UNCHANGED <<task_vars, chan_vars, relay, sync>>

\* main line 38: the sleep is over
SupWake ==
  /\ process = "running"
  /\ UNCHANGED fn_vars
  /\ sup_pc = "sleep"
  /\ sup_pc' = "poll"
  /\ UNCHANGED <<task_vars, chan_vars, process, relay, sync>>

(* ------------------- the pure functions and their inputs --------------- *)
RECURSIVE spaces(_)
spaces(n) == IF n <= 0 THEN <<>> ELSE <<" ">> \o spaces(n - 1)

\* the comment column of a spot, filled with spaces to its width
pad(t, n) == t \o spaces(n - Len(t))

ActivityCodes == {<<"0", DigitSeq[c + 1]>> : c \in 1..8}
SourceLetters == {"d","f","g","m","r","s","t","u","v","w","x"}

\* the tags of the table of parser.rs lines 24-33
GoodTags == {<<"x">> \o a \o <<l>> : a \in ActivityCodes, l \in SourceLetters}

\* tags of the same shape with a code outside the table, and other near misses
BadTags == { <<"x","0","9","s">>, <<"x","0","0","d">>, <<"x","1","1","s">>,
             <<"x","0","4","z">>, <<"x","0","4","S">>, <<"x","0","4","<U+E9>">>,
             <<"x","4","s">>, <<"x","0","4","4","s">>, <<"X","0","4","s">> }

Frequencies == { <<"7","1","4","3",".","0">>, <<"1","4","5">>, <<"1",".","2",".","3">>,
                 <<".",".",".">>, <<"1","2">> }

Timestamps == { <<"1","9","5","9","Z">>, <<"1","9","5","9">>, <<"1","9","5","Z">>,
                <<"1","9","5","9","0","Z">>, <<"1","9","5","9","z">>, <<"Z">> }

\* a spot line in the layout of the lines of the test of parser.rs
spot_line(freq, tag, ts) ==
  <<"D","X"," ","d","e"," ","O","H","8",":"," "," ">> \o freq \o <<" "," ">>
    \o <<"A","D","6","/","P"," "," ">>
    \o (IF tag = <<>> THEN <<>> ELSE tag \o <<" ">>)
    \o pad(<<"H","B","/","B","L","-","0","0","1">>, InfoWidth) \o <<" ">> \o ts

ParseInputs ==
  {[text |-> spot_line(f, t, z), freq |-> f, tag |-> t, ts |-> z] :
     f \in Frequencies, t \in {<<>>} \cup GoodTags \cup BadTags, z \in Timestamps}

FilterHeads == { <<"d","x"," ","d","e">>, <<"D","X"," ","d","e">>, <<"D","X"," ","D","E">>,
                 <<"D","x"," ","d","E">>, <<"d","x"," "," ","d","e">>,
                 <<"x","d"," ","d","e">>, <<" ","d","x"," ","d","e">>, <<"d","x">>, <<>> }
FilterCalls == { <<" ","o","h","8">>, <<" ","O","H","8">>, <<" ","O","G","0">>,
                 <<" ","o","g","9">>, <<" ","o","h">>, <<" ","o","h","x">>,
                 <<" ","o","i","8">>, <<" ","a","d","6">>, <<"o","h","8">>,
                 <<" "," ","o","h","8">> }
FilterRests == { <<>>, <<":"," ","o","h","f","f","-","1">>, <<":"," ","O","H","F","F","-","1">>,
                 <<":"," ","o","h","-","1">>, <<":"," ","O","h","-","1">>,
                 <<":"," ","o","f","f","-">>, <<":"," ","o","h">>, <<":"," ","o","-","h","-">> }

FilterInputs ==
  {[text |-> h \o c \o r] : h \in FilterHeads, c \in FilterCalls, r \in FilterRests}

\* parser.rs lines 19-21: DxEntry::from_str on one line
ParseLine ==
  /\ fn_in \in ParseInputs
  /\ fn_out = NotApplied
  /\ fn_out' = from_str(fn_in.text)
  /\ UNCHANGED <<fn_in, task_vars, chan_vars, main_vars>>

\* cqgma.rs lines 171-197: line_filter on one line
FilterLine ==
  /\ fn_in \in FilterInputs
  /\ fn_out = NotApplied
  /\ fn_out' = [kind |-> "Bool", val |-> line_filter(fn_in.text)]
  /\ UNCHANGED <<fn_in, task_vars, chan_vars, main_vars>>

(* ---------------------------- specifications --------------------------- *)
\* manage_telnet with arbitrary holders of the other ends of its channels
Next ==
  \/ LoopTop
  \/ ConnectOk
  \/ ConnectErr
  \/ Wake
  \/ LoginOk
  \/ LoginErr
  \/ LineRead
  \/ LineEof
  \/ LineErr
  \/ RecvWriteOk
  \/ RecvWriteErr
  \/ RecvClosed
  \/ UserSend
  \/ UserCloseTx
  \/ UserDropRx

Spec == Init /\ [][Next]_vars

\* the binary: main keeps the telnet_tx sender and never uses it, so the
\* receive arm of the select never becomes ready
NextMain ==
  \/ LoopTop
  \/ ConnectOk
  \/ ConnectErr
  \/ Wake
  \/ LoginOk
  \/ LoginErr
  \/ LineRead
  \/ LineEof
  \/ LineErr
  \/ MatrixInitOk
  \/ MatrixInitErr
  \/ RelayRecv
  \/ RelayDone
  \/ SyncOk
  \/ SyncErr
  \/ Poll
  \/ SupWake

SpecMain == Init /\ [][NextMain]_vars

\* the manager under weak fairness of its own steps: a step of manage_telnet
\* that stays possible is taken
ManagerStep ==
  \/ LoopTop \/ ConnectOk \/ ConnectErr \/ Wake \/ LoginOk \/ LoginErr
  \/ LineRead \/ LineEof \/ LineErr \/ RecvWriteOk \/ RecvWriteErr \/ RecvClosed

SpecLive == Init /\ [][Next]_vars /\ WF_vars(ManagerStep)

\* DxEntry::from_str applied to each of the lines of ParseInputs
InitParse == InitTasks /\ fn_in \in ParseInputs /\ fn_out = NotApplied
NextParse == ParseLine
SpecParse == InitParse /\ [][NextParse]_vars

\* line_filter applied to each of the lines of FilterInputs
InitFilter == InitTasks /\ fn_in \in FilterInputs /\ fn_out = NotApplied
NextFilter == FilterLine
SpecFilter == InitFilter /\ [][NextFilter]_vars

(* ================================ claims =============================== *)
Last(q) == q[Len(q)]
Front(q) == SubSeq(q, 1, Len(q) - 1)
IsMsgWrite(w) == w.kind = "msg"

\* the prompt of the last login() is one that must be refused
BadPrompt(io) ==
  \/ ~io.read_ok
  \/ \E i \in 1..Len(io.buf) : io.buf[i] = BadByte
  \/ ~starts_with(io.buf, LoginLit)

\* a manager that has returned does nothing more
ManagerStopped ==
  pc = "returned" =>
    UNCHANGED <<pc, result, attempts, sleeps, timer, wire, rx_sent, tx_taken>>

\* C1: when the bytes read by login() do not start with "login:", are not
\* valid UTF-8, or the read fails, manage_telnet returns the login error; it
\* writes no username on that connection, starts no sleep and makes no
\* further connect attempt.
C1_LoginFailureIsFatal ==
  /\ [](login_io.done /\ BadPrompt(login_io) =>
          /\ pc = "returned"
          /\ result = "login"
          /\ timer = 0
          /\ \A i \in 1..Len(wire) : wire[i].conn # attempts)
  /\ [][ManagerStopped]_vars

C1_Witness ==
  /\ pc = "returned"
  /\ result = "login"
  /\ login_io.read_ok
  /\ login_io.buf = <<"L","o","g","i","n",":"," ">>
  /\ sleeps = 0

\* C2: end of stream in Active does not end the manager; it leaves Active,
\* sleeps the delay drawn at the top of the cycle, and every later read is on
\* a connection made by exactly one connect attempt per completed sleep.
C2_EofIsRetryable ==
  /\ [](lost = "eof" /\ attempts = lost_at =>
          /\ result = "none"
          /\ pc \in {"sleep_reconnect", "loop", "connect"}
          /\ pc = "sleep_reconnect" => timer = sleep_for /\ timer > 0)
  /\ [](pc \in {"login", "active"} => attempts = sleeps + 1 /\ attempts > lost_at)
  /\ [][pc = "sleep_reconnect" /\ pc' # pc =>
          pc' = "loop" /\ sleeps' = sleeps + 1 /\ attempts' = attempts]_vars
  /\ [][attempts' # attempts => pc = "connect" /\ attempts' = attempts + 1]_vars
  /\ [][(pc \in {"connect", "login", "active"}) => sleep_for' = sleep_for]_vars

C2_Witness ==
  /\ lost = "eof"
  /\ lost_at = 1
  /\ attempts = 2
  /\ sleeps = 1
  /\ pc = "login"

\* C3: a failed connect never ends the manager: it sleeps the precomputed
\* delay, goes back to the top of the loop and connects again, however many
\* failures came before.
C3_ConnectFailureIsRetryable ==
  /\ [](stream = "Err" =>
          /\ result = "none"
          /\ pc \in {"sleep_retry", "loop"}
          /\ pc = "sleep_retry" => timer = sleep_for /\ timer > 0)
  /\ [][pc = "sleep_retry" /\ pc' # pc => pc' = "loop" /\ sleeps' = sleeps + 1]_vars
  /\ [][pc = "loop" /\ pc' # pc => pc' = "connect" /\ result' = "none"]_vars

C3_Witness ==
  /\ attempts = MaxAttempts
  /\ sleeps = MaxAttempts - 1
  /\ stream = "Err"
  /\ pc = "sleep_retry"
  /\ wire = <<>>

\* C4 as stated: whatever the manager is doing when the telnet_tx channel is
\* closed, it returns an error instead of going on with its reconnect loop;
\* here: a manager sleeping with the channel closed and empty does not start
\* another cycle.
C4_ClosedStopsTheLoop ==
  [][(tx_closed /\ tx_queue = <<>> /\ pc \in {"sleep_retry", "sleep_reconnect"})
       => pc' # "loop"]_vars

\* C4 amended: the closed channel is seen only by the receive arm of the
\* select in Active: there the manager returns the error without sleeping,
\* connecting or writing, and a closed and empty channel never sends it from
\* Active to the backoff sleep except at end of stream.
C4_ClosedIsFatalInActive ==
  /\ [](result = "tx_closed" =>
          /\ pc = "returned"
          /\ tx_closed
          /\ tx_queue = <<>>
          /\ timer = 0
          /\ login_io.done /\ login_io.write_ok)
  /\ [][result' = "tx_closed" /\ result = "none" =>
          pc = "active" /\ UNCHANGED <<attempts, sleeps, wire>>]_vars
  /\ [][pc = "active" /\ tx_closed /\ tx_queue = <<>> /\ pc' = "sleep_reconnect" =>
          lost' = "eof" /\ lost_at' = attempts]_vars
  /\ [][ManagerStopped]_vars

C4_Witness ==
  /\ result = "tx_closed"
  /\ pc = "returned"
  /\ sleeps >= 1
  /\ tx_taken = Len(tx_sent)

\* C5: in Active, a line the filter accepts, read when the receiver of
\* telnet_rx is gone, makes the manager return an error with no sleep and no
\* reconnect; a line the filter rejects does not, receiver gone or not.
C5_DroppedReceiverIsFatal ==
  /\ [](result = "rx_closed" =>
          /\ pc = "returned"
          /\ rx_dropped
          /\ timer = 0
          /\ lines_read # <<>>
          /\ line_filter(Last(lines_read)))
  /\ [][(pc = "active" /\ rx_dropped /\ Len(lines_read') = Len(lines_read) + 1) =>
          IF line_filter(Last(lines_read'))
          THEN /\ pc' = "returned"
               /\ result' = "rx_closed"
               /\ UNCHANGED <<attempts, sleeps, timer, wire, rx_sent>>
          ELSE pc' = "active" /\ result' = "none"]_vars
  /\ [][ManagerStopped]_vars

C5_Witness ==
  /\ result = "rx_closed"
  /\ pc = "returned"
  /\ Len(lines_read) = 2
  /\ ~line_filter(lines_read[1])
  /\ rx_sent = <<>>

\* C6 as stated: the lines placed on telnet_rx are exactly the stripped lines
\* read that line_filter accepts, in arrival order.
C6_ForwardedIsFiltered ==
  rx_sent = SelectSeq(lines_read, line_filter)

\* the lines whose handling did not end in the error of line 88
Handled == IF result = "rx_closed" THEN Front(lines_read) ELSE lines_read

\* C6 amended: the lines placed on telnet_rx are exactly the stripped lines
\* read that line_filter accepts, in arrival order, up to an accepted line
\* whose send fails because the receiver is gone: that line is placed nowhere
\* and is the last line the manager reads.
C6_ForwardedIsFilteredWhileReceived ==
  /\ rx_sent = SelectSeq(Handled, line_filter)
  /\ result = "rx_closed" => line_filter(Last(lines_read))

C6_Witness ==
  /\ pc = "active"
  /\ attempts = 2
  /\ Len(lines_read) = 2
  /\ ~line_filter(lines_read[1])
  /\ rx_sent = <<lines_read[2]>>

\* C7: the messages taken from telnet_tx are written to the socket in the
\* order they were sent on the channel, one write per message, each write the
\* message followed by one newline.
C7_WrittenInChannelOrder ==
  LET writes == SelectSeq(wire, IsMsgWrite) IN
  /\ Len(writes) = tx_taken
  /\ tx_taken <= Len(tx_sent)
  /\ \A i \in 1..Len(writes) : writes[i].bytes = tx_sent[i] \o <<"\n">>

C7_Witness ==
  /\ tx_taken = 2
  /\ tx_sent[1] # tx_sent[2]
  /\ lines_read # <<>>
  /\ \A i \in 1..Len(wire) : wire[i].ok

\* C8: a failed socket write never ends the manager: after a failed write on
\* the current connection the manager is in the backoff sleep or on its way
\* to the next connect attempt.
C8_WriteFailureIsRetryable ==
  (wire # <<>> /\ ~Last(wire).ok /\ Last(wire).conn = attempts) =>
    /\ result = "none"
    /\ pc \in {"sleep_reconnect", "loop", "connect"}

\* C9: every value of sleep_for, and every sleep of the manager, is at least
\* 17 and at most 34 seconds.
C9_BackoffRange ==
  /\ pc \in {"connect", "login", "active", "sleep_retry", "sleep_reconnect"} =>
       sleep_for >= 17 /\ sleep_for <= 34
  /\ pc \in {"sleep_retry", "sleep_reconnect"} => timer >= 17 /\ timer <= 34
  /\ pc \notin {"sleep_retry", "sleep_reconnect"} => timer = 0

C9_Witness ==
  /\ pc = "sleep_reconnect"
  /\ timer = 34

\* C10: the supervisor loop of main ends the process at a poll exactly when
\* one of the supervised tasks has finished, with success or with an error;
\* it never ends the process while none has.
C10_SupervisorStopsOnFinishedTask ==
  /\ [](process = "panicked" => any_finished)
  /\ [][process' = "panicked" /\ process # "panicked" => sup_pc = "poll"]_vars
  /\ [][sup_pc = "poll" /\ (sup_pc' # sup_pc \/ process' # process) =>
          (process' = "panicked") = any_finished]_vars

C10_Witness ==
  /\ process = "panicked"
  /\ sync = "finished"
  /\ relay = "running"
  /\ result = "none"

(* ------------------------ claims on DxEntry parsing -------------------- *)
Parsed == fn_out # NotApplied
GoodFrequency == Len(fn_in.freq) >= 3 /\ f32_parse_ok(fn_in.freq)
FourDigitsAndZ(t) ==
  /\ Len(t) = 5
  /\ \A i \in 1..4 : t[i] \in Digits
  /\ t[5] = "Z"
\* 'x', two digits and one letter
TagShaped(t) ==
  /\ Len(t) = 4
  /\ t[1] = "x"
  /\ t[2] \in Digits /\ t[3] \in Digits
  /\ is_alphabetic(t[4])

\* C11: a line whose tag has the shape 'x', two digits, one letter, but whose
\* code or letter is not in the table, is not parsed: from_str returns an
\* error and never an entry without identifier.
C11_MalformedTagFailsTheParse ==
  Parsed /\ GoodFrequency /\ TagShaped(fn_in.tag) /\ fn_in.tag \notin GoodTags =>
    fn_out.kind = "Err"

\* C12: from_str returns an entry or an error for every line and never
\* panics; a frequency token that is no number gives the error.
C12_ParseNeverPanics ==
  Parsed =>
    /\ fn_out.kind \in {"Ok", "Err"}
    /\ ~f32_parse_ok(fn_in.freq) => fn_out.kind = "Err"

\* C13: from_str returns an entry only for a timestamp token of exactly four
\* digits and 'Z', and the timestamp of every entry has exactly four digits.
C13_TimestampIsFourDigitsAndZ ==
  fn_out.kind = "Ok" =>
    /\ FourDigitsAndZ(fn_in.ts)
    /\ Len(fn_out.timestamp) = 4

ActivityTable ==
  { <<"1", "Wwff">>, <<"2", "Iota">>, <<"3", "Cota">>, <<"4", "Sota">>,
    <<"5", "Gma">>, <<"6", "Lighthouses">>, <<"7", "Rda">>, <<"8", "Agcw">> }
SourceTable ==
  { <<"d", "DxCluster">>, <<"f", "SmartWwff">>, <<"g", "GmaWatch">>,
    <<"m", "SmartGma">>, <<"r", "Rbn">>, <<"s", "SotaWatchRss">>, <<"t", "Rrt">>,
    <<"u", "UdxLog">>, <<"v", "VkSpots">>, <<"w", "WwffWatch">>, <<"x", "Sms">> }
Lookup(table, key) == (CHOOSE e \in table : e[1] = key)[2]

\* C14: on a line that is valid otherwise, each of the 8 codes 01..08 with
\* each of the 11 letters gives the entry with exactly the activity and the
\* source of the table, and a line without tag gives the entry with no
\* identifier.
C14_TagTable ==
  Parsed /\ GoodFrequency /\ FourDigitsAndZ(fn_in.ts) =>
    /\ fn_in.tag \in GoodTags =>
         /\ fn_out.kind = "Ok"
         /\ fn_in.tag[2] = "0"
         /\ fn_out.cqgma_identifier =
              [activity |-> Lookup(ActivityTable, fn_in.tag[3]),
               source |-> Lookup(SourceTable, fn_in.tag[4])]
    /\ fn_in.tag = <<>> =>
         /\ fn_out.kind = "Ok"
         /\ fn_out.cqgma_identifier = NoIdentifier

C14_Witness ==
  /\ fn_in.text = spot_line(<<"7","1","4","3",".","0">>, <<"x","0","8","x">>,
                            <<"1","9","5","9","Z">>)
  /\ fn_out.kind = "Ok"
  /\ fn_out.cqgma_identifier = [activity |-> "Agcw", source |-> "Sms"]
  /\ fn_out.timestamp = <<"1","9","5","9">>

(* --------------------------- claims on line_filter --------------------- *)
upper_char(c) ==
  IF \E k \in 1..26 : LowerChars[k] = c
  THEN UpperChars[CHOOSE k \in 1..26 : LowerChars[k] = c]
  ELSE c
to_uppercase(s) == [i \in 1..Len(s) |-> upper_char(s[i])]
Filtered == fn_out.kind = "Bool"
\* the lower-cased text of the line begins with 'dx de'
DxDe(t) ==
  /\ Len(t) >= 5
  /\ \A i \in 1..5 : to_lowercase(t)[i] = <<"d","x"," ","d","e">>[i]
\* the three ways of the rule, on a text in lower case
OwnCall(l) ==
  /\ Len(l) >= 9
  /\ SubSeq(l, 1, 8) \in {<<"d","x"," ","d","e"," ","o","h">>,
                          <<"d","x"," ","d","e"," ","o","g">>}
  /\ l[9] \in Digits
HasRef(l, ref) == \E i \in 1..Len(l) : \E j \in i..Len(l) : SubSeq(l, i, j) = ref
Wanted(l) ==
  \/ OwnCall(l)
  \/ HasRef(l, <<"o","h","f","f","-">>)
  \/ HasRef(l, <<"o","h","-">>)

\* C15: on a line whose lower-cased text starts with 'dx de', line_filter is
\* true exactly when the text starts with 'dx de oh' or 'dx de og' followed
\* by a digit at index 8, or contains 'ohff-', or contains 'oh-'; the case of
\* the letters of the line makes no difference.
C15_FilterRule ==
  Filtered /\ DxDe(fn_in.text) =>
    /\ fn_out.val = Wanted(to_lowercase(fn_in.text))
    /\ fn_out.val = Wanted(to_lowercase(to_uppercase(fn_in.text)))

C15_Witness ==
  /\ Filtered
  /\ fn_in.text = <<"D","X"," ","D","E"," ","O","G","0">>
  /\ fn_out.val = TRUE

\* C16: line_filter is false on every line whose lower-cased text does not
\* start with 'dx de', also when the line contains 'ohff-' or 'oh-'.
C16_OtherLinesRejected ==
  Filtered /\ ~DxDe(fn_in.text) => fn_out.val = FALSE

C16_Witness ==
  /\ Filtered
  /\ fn_in.text = <<"x","d"," ","d","e"," ","o","h","8",":"," ","o","h","f","f","-","1">>
  /\ fn_out.val = FALSE

(* ------------------- claims on the lines and the reads ----------------- *)
\* C17: no line on the channel to the room ends with a bell or with a
\* whitespace character.
C17_ForwardedIsStripped ==
  \A i \in 1..Len(rx_sent) :
    rx_sent[i] # <<>> => Last(rx_sent[i]) \notin Whitespace \cup {BEL}

\* C18: a session whose reads keep failing is left: from a state of Active
\* in which every read returns an error, the manager leaves Active.
C18_BrokenReadLeavesActive ==
  (process = "running" /\ pc = "active" /\ rd = "broken")
    ~> (pc # "active" \/ process # "running")

SleepStates == {"sleep_retry", "sleep_reconnect"}

\* C19: a step in which next_line() returns an error leaves the manager in
\* Active and changes neither the channels, nor the bytes written to the
\* socket, nor the sleeps, the connect attempts or the result of the task.
C19_ReadErrorChangesNothing ==
  [][pc = "active" /\ rd' # rd /\ rd' \in {"erred", "broken"} =>
       /\ pc' = "active"
       /\ UNCHANGED <<rx_sent, rx_taken, rx_dropped, tx_sent, tx_taken, tx_closed>>
       /\ UNCHANGED <<wire, lines_read, timer, sleep_for, sleeps, attempts, stream,
                      result, lost>>]_vars

C19_Witness ==
  /\ pc = "active"
  /\ rd = "erred"
  /\ Len(rx_sent) = 1
  /\ tx_queue # <<>>
  /\ sleeps = 0

\* C20: the delay is drawn at the top of the loop only; every sleep, after a
\* failed connect or after the loss of a session, lasts the delay drawn at
\* the top of its cycle; every connect attempt is preceded by as many
\* finished sleeps as there were attempts before it, so none for the first
\* and exactly one between two consecutive attempts.
C20_OneSleepPerCycle ==
  /\ [][sleep_for' # sleep_for =>
          \/ pc = "loop" /\ pc' = "connect"
          \/ (pc \in SleepStates) /\ pc' = "loop" /\ sleep_for' = 0]_vars
  /\ [][(pc \notin SleepStates) /\ (pc' \in SleepStates) =>
          timer' = sleep_for /\ sleep_for' = sleep_for]_vars
  /\ [](pc \in SleepStates => timer = sleep_for)
  /\ [][attempts' # attempts => attempts' = attempts + 1 /\ sleeps = attempts]_vars
  /\ [][sleeps' # sleeps =>
          (pc \in SleepStates) /\ sleeps' = sleeps + 1 /\ attempts = sleeps']_vars

C20_Witness ==
  /\ pc = "sleep_retry"
  /\ attempts = 3
  /\ sleeps = 2
  /\ lost # "none"
  /\ lost_at = 1
  /\ timer = sleep_for

(* -------------- claims on the handshake and the two directions --------- *)
\* the writes made on connection c, in order
ConnWrites(c) == SelectSeq(wire, LAMBDA w : w.conn = c)
IsUserWrite(w) ==
  /\ w.kind = "user"
  /\ w.bytes = Username \o <<"\n">>
MsgWrites == SelectSeq(wire, IsMsgWrite)

\* C21: on every connection the first write is the username and a newline,
\* it is the only write of the username, and every write of a message comes
\* after it and only when it succeeded; the connection of an Active session,
\* the first or a later one, has that successful write; a message is written
\* only in Active.
C21_HandshakeBeforeMessages ==
  /\ [](\A c \in 1..attempts :
          LET ws == ConnWrites(c) IN
          ws # <<>> =>
            /\ IsUserWrite(ws[1])
            /\ \A i \in 2..Len(ws) : IsMsgWrite(ws[i]) /\ ws[1].ok)
  /\ [](pc = "active" =>
          /\ ConnWrites(attempts) # <<>>
          /\ IsUserWrite(ConnWrites(attempts)[1])
          /\ ConnWrites(attempts)[1].ok)
  /\ [][Len(wire') > Len(wire) /\ IsMsgWrite(Last(wire')) =>
          pc = "active" /\ Last(wire').conn = attempts]_vars

C21_Witness ==
  /\ pc = "active"
  /\ attempts = 2
  /\ Len(ConnWrites(1)) = 2
  /\ Len(ConnWrites(2)) = 2
  /\ IsUserWrite(ConnWrites(2)[1])
  /\ IsMsgWrite(ConnWrites(2)[2])

\* C22: a message sent on the channel outside Active stays queued: outside
\* Active nothing is taken from the channel and nothing of it is written; a
\* send only appends to the channel; every take is of the oldest queued
\* message and makes exactly one write of it, successful or not, so that a
\* message whose write failed is not written again.
C22_QueuedMessagesKept ==
  /\ [][pc # "active" =>
          tx_taken' = tx_taken /\ SelectSeq(wire', IsMsgWrite) = MsgWrites]_vars
  /\ [][tx_sent' # tx_sent =>
          Front(tx_sent') = tx_sent /\ tx_taken' = tx_taken]_vars
  /\ [][tx_taken' # tx_taken \/ SelectSeq(wire', IsMsgWrite) # MsgWrites =>
          /\ tx_taken' = tx_taken + 1
          /\ tx_taken < Len(tx_sent)
          /\ wire' = Append(wire, Last(wire'))
          /\ IsMsgWrite(Last(wire'))
          /\ Last(wire').bytes = tx_sent[tx_taken + 1] \o <<"\n">>
          /\ ~Last(wire').ok => pc' = "sleep_reconnect"]_vars
  /\ [](Len(MsgWrites) = tx_taken)

C22_Witness ==
  /\ pc = "active"
  /\ attempts = 2
  /\ tx_taken = 2
  /\ tx_sent[1] # tx_sent[2]
  /\ Len(MsgWrites) = 2
  /\ ~MsgWrites[1].ok /\ MsgWrites[1].conn = 1
  /\ MsgWrites[2].ok /\ MsgWrites[2].conn = 2
  /\ MsgWrites[2].bytes = tx_sent[2] \o <<"\n">>

\* C23: when login() has returned Ok, its reader holds no byte of the server
\* beyond the first space of the prompt, so that every byte sent after the
\* prompt is read by the line reader of Active.
C23_NoInboundByteLost ==
  login_io.done /\ pc = "active" => login_io.rest = <<>>

\* the three errors manage_telnet returns
FatalResults == {"login", "tx_closed", "rx_closed"}

\* C24: the manager returns only with the login error, from login; with the
\* error of the closed telnet_tx channel, from Active, the channel closed and
\* empty; or with the error of the dropped receiver of telnet_rx, from
\* Active; it never returns Ok, and while it has not returned it is at the
\* top of the loop, connecting, logging in, Active or sleeping.
C24_OnlyThreeWaysOut ==
  /\ [](pc = "returned" => result \in FatalResults)
  /\ [](pc # "returned" =>
          /\ result = "none"
          /\ pc \in {"loop", "connect", "login", "active", "sleep_retry",
                     "sleep_reconnect"})
  /\ [][pc' = "returned" /\ pc # "returned" =>
          \/ result' = "login" /\ pc = "login"
          \/ result' = "tx_closed" /\ pc = "active" /\ tx_closed /\ tx_queue = <<>>
          \/ result' = "rx_closed" /\ pc = "active" /\ rx_dropped]_vars

C24_Witness ==
  /\ pc = "returned"
  /\ result = "rx_closed"
  /\ sleeps = 2
  /\ lost = "write"

====
